---- MODULE Spec2Model ----
(***************************************************************************)
(* Model of the examples of the notebook                                   *)
(* "4_simplifying_conditional_expressions.ipynb": every refactoring is     *)
(* shown as a "bad" snippet and a "good" snippet.  Each example cell is    *)
(* run on an input; the two loan-repayment functions and the two price     *)
(* flows are run statement by statement so that the order of the predicate *)
(* calls and the module-level variables mult and price are observable.     *)
(***************************************************************************)
EXTENDS Integers, Sequences, FiniteSets, TLC

VARIABLES
    cell,       \* the example that is running or ran last ("none" at start)
    pc,         \* position inside the running example, "idle" between runs
    date,       \* module-level `date` of the decompose-conditional cell
    badOut,     \* what the bad date flow printed
    printed,    \* everything the date cell printed (bad flow, then good flow)
    person,     \* argument of the loan functions (namedtuple / object)
    badRes,     \* value returned by the bad__ function of the example
    goodRes,    \* value returned by the good__ function of the example
    calls,      \* predicate calls issued so far by the running function
    badCalls,   \* predicate calls issued by bad__loan_repayment_due
    customer,   \* argument of the get_bill functions
    mult,       \* module-level `mult` of the price cell
    price,      \* module-level `price` of the price cell
    ranBad,     \* the bad price flow runs before the good price flow in this run
    badDisc,    \* what is_discounted() returned in the bad price flow
    goodDisc,   \* what is_discounted() returned in the good price flow
    badMult,    \* mult as the bad price flow left it
    badPrice    \* price as the bad price flow left it

vars == <<cell, pc, date, badOut, printed, person, badRes, goodRes, calls,
          badCalls, customer, mult, price, ranBad, badDisc, goodDisc,
          badMult, badPrice>>

(***************************************************************************)
(* Bounds of the inputs.                                                   *)
(***************************************************************************)
MaxAgeDelta == 1        \* ages 70-d .. 70+d
MaxIncomeDelta == 1     \* incomes 1000-d .. 1000+d
MaxYearDelta == 1       \* years 2023-d .. 2023+d

(***************************************************************************)
(* Python values.                                                          *)
(***************************************************************************)
PyNone == [type |-> "NoneType"]
PyInt(v) == [type |-> "int", val |-> v]
\* floats of the price cell are kept in tenths: 0.8 is 8, 1.0 is 10, 8.0 is 80
PyFloat(tenths) == [type |-> "float", tenths |-> tenths]
PyBool(b) == [type |-> "bool", val |-> b]
AttributeError == [type |-> "raise", exc |-> "AttributeError"]
Unbound == [type |-> "unbound"]

(***************************************************************************)
(* 1. Decompose Conditional                                                *)
(***************************************************************************)
DigitVal(c) ==
    CASE c = "0" -> 0 [] c = "1" -> 1 [] c = "2" -> 2 [] c = "3" -> 3
      [] c = "4" -> 4 [] c = "5" -> 5 [] c = "6" -> 6 [] c = "7" -> 7
      [] c = "8" -> 8 [] c = "9" -> 9

RECURSIVE ParseInt(_)
ParseInt(s) ==
    IF s = <<>> THEN 0
    ELSE ParseInt(SubSeq(s, 1, Len(s) - 1)) * 10 + DigitVal(s[Len(s)])

\* datetime.strptime(s, '%Y-%m-%d')
strptime(s) ==
    [year  |-> ParseInt(SubSeq(s, 1, 4)),
     month |-> ParseInt(SubSeq(s, 6, 7)),
     day   |-> ParseInt(SubSeq(s, 9, 10))]

SampleDateStr == <<"2", "0", "2", "4", "-", "1", "2", "-", "1", "5">>
SampleDate == strptime(SampleDateStr)

Dates ==
    {SampleDate} \cup
    [year : (2023 - MaxYearDelta)..(2023 + MaxYearDelta), month : 1..12, day : {15}]

\* ## Bad flow
BadDateFlow(d, out) ==
    IF (d.month = 12) /\ (d.year >= 2023) THEN Append(out, "date is valid") ELSE out

check_if_date_valid_Mut(d) == (d.month = 12) /\ (d.year > 2023)

check_if_date_valid(d) == (d.month = 12) /\ (d.year >= 2023)

\* ## Good flow
GoodDateFlow(d, out) ==
    IF check_if_date_valid(d) THEN Append(out, "date is valid") ELSE out

(***************************************************************************)
(* 2. Consolidate Conditional Expression                                   *)
(***************************************************************************)
Genders == {"m", "f", "x"}

Persons ==
    [age    : (70 - MaxAgeDelta)..(70 + MaxAgeDelta),
     income : (1000 - MaxIncomeDelta)..(1000 + MaxIncomeDelta),
     gender : Genders]

bad__get_loan_limit_Mut(p) ==
    IF p.age > 70 THEN 0
    ELSE IF p.income <= 1000 THEN 0
    ELSE IF p.gender = "m" THEN 0
    ELSE 100

bad__get_loan_limit(p) ==
    IF p.age >= 70 THEN 0
    ELSE IF p.income <= 1000 THEN 0
    ELSE IF p.gender = "m" THEN 0
    ELSE 100

is_eligible_for_loan_Mut(p) ==
    IF p.age >= 70 THEN FALSE
    ELSE IF p.income < 1000 THEN FALSE
    ELSE IF p.gender = "m" THEN FALSE
    ELSE TRUE

is_eligible_for_loan(p) ==
    IF p.age >= 70 THEN FALSE
    ELSE IF p.income <= 1000 THEN FALSE
    ELSE IF p.gender = "m" THEN FALSE
    ELSE TRUE

good__get_loan_limit(p) ==
    IF is_eligible_for_loan(p) THEN 100 ELSE 0

(***************************************************************************)
(* 7. Introduce Null Object                                                *)
(***************************************************************************)
\* Customer(): __init__ sets bill to 123
Customer == [class |-> "Customer", bill |-> 123]

NullCustomer_Mut == [class |-> "NullCustomer", bill |-> 123]

\* NullCustomer(): __init__ is overridden, bill is 0
NullCustomer == [class |-> "NullCustomer", bill |-> 0]

Customers == {PyNone, Customer, NullCustomer}

\* attribute access obj.name
GetAttr(obj, name) ==
    IF name \in DOMAIN obj THEN PyInt(obj[name]) ELSE AttributeError

bad__get_bill(c) ==
    IF c = PyNone THEN PyInt(0) ELSE GetAttr(c, "bill")

good__get_bill_Mut(c) ==
    IF c = PyNone THEN PyInt(0) ELSE GetAttr(c, "bill")

good__get_bill(c) == GetAttr(c, "bill")

(***************************************************************************)
(* 5. Replace Nested Conditional with Guard Clauses                        *)
(* person.is_dead() etc. answer the person's flags; every call is appended *)
(* to the trace `calls` with the value it returned.                        *)
(***************************************************************************)
Predicates == <<"is_dead", "is_divorced", "is_retired", "is_not_working">>

DuePersons ==
    [is_dead : BOOLEAN, is_divorced : BOOLEAN, is_retired : BOOLEAN,
     is_not_working : BOOLEAN]

Call(pred) == Append(calls, [pred |-> pred, ret |-> person[pred]])

\* `return v` (or falling off the end, v = None) in bad__loan_repayment_due;
\* good__loan_repayment_due is called next on the same person
BadReturn(pred, v) ==
    /\ badRes' = v
    /\ badCalls' = Call(pred)
    /\ calls' = <<>>
    /\ pc' = "good_is_dead"
    /\ UNCHANGED goodRes

\* `if/elif person.pred(): return v` at position here of the nested version
BadQuery(here, pred, v, next) ==
    /\ cell = "due"
    /\ pc = here
    /\ IF person[pred] THEN BadReturn(pred, PyInt(v))
       ELSE IF next = "end" THEN BadReturn(pred, PyNone)
       ELSE /\ calls' = Call(pred)
            /\ pc' = next
            /\ UNCHANGED <<badRes, badCalls, goodRes>>
    /\ UNCHANGED <<cell, date, badOut, printed, person, customer, mult, price,
                   ranBad, badDisc, goodDisc, badMult, badPrice>>

\* `return v` (or falling off the end, v = None) in good__loan_repayment_due
GoodReturn(pred, v) ==
    /\ goodRes' = v
    /\ calls' = Call(pred)
    /\ pc' = "idle"
    /\ UNCHANGED <<badRes, badCalls>>

GoodQuery_Mut(here, pred, v, next) ==
    /\ cell = "due"
    /\ pc = here
    /\ IF next = "end"
       THEN GoodReturn(pred, IF person[pred] THEN PyInt(v) ELSE PyNone)
       ELSE /\ calls' = Call(pred)
            /\ pc' = next
            /\ UNCHANGED <<badRes, badCalls, goodRes>>
    /\ UNCHANGED <<cell, date, badOut, printed, person, customer, mult, price,
                   ranBad, badDisc, goodDisc, badMult, badPrice>>

\* `if person.pred(): return v` at position here of the guard-clause version
GoodQuery(here, pred, v, next) ==
    /\ cell = "due"
    /\ pc = here
    /\ IF person[pred] THEN GoodReturn(pred, PyInt(v))
       ELSE IF next = "end" THEN GoodReturn(pred, PyNone)
       ELSE /\ calls' = Call(pred)
            /\ pc' = next
            /\ UNCHANGED <<badRes, badCalls, goodRes>>
    /\ UNCHANGED <<cell, date, badOut, printed, person, customer, mult, price,
                   ranBad, badDisc, goodDisc, badMult, badPrice>>

bad_is_dead == BadQuery("bad_is_dead", "is_dead", 0, "bad_is_divorced")

bad_is_divorced == BadQuery("bad_is_divorced", "is_divorced", 100, "bad_is_retired")

bad_is_retired_Mut == BadQuery("bad_is_retired", "is_retired", 200, "bad_is_not_working")

bad_is_retired == BadQuery("bad_is_retired", "is_retired", 100, "bad_is_not_working")

bad_is_not_working == BadQuery("bad_is_not_working", "is_not_working", 200, "end")

good_is_dead == GoodQuery("good_is_dead", "is_dead", 0, "good_is_divorced")

good_is_divorced == GoodQuery("good_is_divorced", "is_divorced", 100, "good_is_retired")

good_is_retired == GoodQuery("good_is_retired", "is_retired", 100, "good_is_not_working")

good_is_not_working == GoodQuery("good_is_not_working", "is_not_working", 200, "end")

\* number of predicates bad__loan_repayment_due(p) calls: the else branch is
\* entered only when is_dead() is false, each elif only when the tests before
\* it are false
BadCallCount(p) ==
    IF p.is_dead THEN 1
    ELSE IF p.is_divorced THEN 2
         ELSE IF p.is_retired THEN 3
         ELSE 4

\* number of predicates good__loan_repayment_due(p) calls: every guard returns
GoodCallCount(p) ==
    IF p.is_dead THEN 1
    ELSE IF p.is_divorced THEN 2
    ELSE IF p.is_retired THEN 3
    ELSE 4

(***************************************************************************)
(* 3. Consolidate Duplicate Conditional Fragments                          *)
(***************************************************************************)
\* is_discounted() when random.randint(1,10) draws val
is_discounted(val) == IF val > 5 THEN TRUE ELSE FALSE

get_price(base, m) == base * m

PriceFrame ==
    UNCHANGED <<cell, date, badOut, printed, person, badRes, goodRes, calls,
                badCalls, customer, ranBad>>

\* if is_discounted():                      (bad flow)
bad_if ==
    /\ cell = "price" /\ pc = "bad_if"
    /\ \E val \in 1..10 :
         /\ badDisc' = PyBool(is_discounted(val))
         /\ pc' = IF is_discounted(val) THEN "bad_then_mult" ELSE "bad_else_mult"
    /\ UNCHANGED <<mult, price, goodDisc, badMult, badPrice>>
    /\ PriceFrame

\* mult = 0.8
bad_then_mult ==
    /\ cell = "price" /\ pc = "bad_then_mult"
    /\ mult' = PyFloat(8)
    /\ pc' = "bad_then_price"
    /\ UNCHANGED <<price, badDisc, goodDisc, badMult, badPrice>>
    /\ PriceFrame

\* mult = 1.0
bad_else_mult ==
    /\ cell = "price" /\ pc = "bad_else_mult"
    /\ mult' = PyFloat(10)
    /\ pc' = "bad_else_price"
    /\ UNCHANGED <<price, badDisc, goodDisc, badMult, badPrice>>
    /\ PriceFrame

\* price = get_price(10, mult); the bad flow ends and the good flow follows
BadPrice(here) ==
    /\ cell = "price" /\ pc = here
    /\ price' = PyFloat(get_price(10, mult.tenths))
    /\ badMult' = mult
    /\ badPrice' = price'
    /\ pc' = "good_mult_default"
    /\ UNCHANGED <<mult, badDisc, goodDisc>>
    /\ PriceFrame

bad_then_price == BadPrice("bad_then_price")

bad_else_price == BadPrice("bad_else_price")

good_mult_default_Mut ==
    /\ cell = "price" /\ pc = "good_mult_default"
    /\ mult' = IF mult = Unbound THEN PyFloat(10) ELSE mult
    /\ pc' = "good_if"
    /\ UNCHANGED <<price, badDisc, goodDisc, badMult, badPrice>>
    /\ PriceFrame

\* mult=1.0                                 (good flow)
good_mult_default ==
    /\ cell = "price" /\ pc = "good_mult_default"
    /\ mult' = PyFloat(10)
    /\ pc' = "good_if"
    /\ UNCHANGED <<price, badDisc, goodDisc, badMult, badPrice>>
    /\ PriceFrame

\* if is_discounted():
good_if ==
    /\ cell = "price" /\ pc = "good_if"
    /\ \E val \in 1..10 :
         /\ goodDisc' = PyBool(is_discounted(val))
         /\ pc' = IF is_discounted(val) THEN "good_then_mult" ELSE "good_price"
    /\ UNCHANGED <<mult, price, badDisc, badMult, badPrice>>
    /\ PriceFrame

good_then_mult_Mut ==
    /\ cell = "price" /\ pc = "good_then_mult"
    /\ mult' = PyFloat(9)
    /\ pc' = "good_price"
    /\ UNCHANGED <<price, badDisc, goodDisc, badMult, badPrice>>
    /\ PriceFrame

\*     mult = 0.8
good_then_mult ==
    /\ cell = "price" /\ pc = "good_then_mult"
    /\ mult' = PyFloat(8)
    /\ pc' = "good_price"
    /\ UNCHANGED <<price, badDisc, goodDisc, badMult, badPrice>>
    /\ PriceFrame

\* price = get_price(10, mult)
good_price ==
    /\ cell = "price" /\ pc = "good_price"
    /\ price' = PyFloat(get_price(10, mult.tenths))
    /\ pc' = "idle"
    /\ UNCHANGED <<mult, badDisc, goodDisc, badMult, badPrice>>
    /\ PriceFrame

(***************************************************************************)
(* Running the examples.  The inputs and results of the previous run are   *)
(* forgotten when an example starts; the module-level mult and price stay. *)
(***************************************************************************)
Forget ==
    /\ date' = PyNone /\ badOut' = <<>> /\ printed' = <<>>
    /\ person' = PyNone /\ badRes' = PyNone /\ goodRes' = PyNone
    /\ calls' = <<>> /\ badCalls' = <<>> /\ customer' = PyNone
    /\ badDisc' = PyNone /\ goodDisc' = PyNone
    /\ badMult' = Unbound /\ badPrice' = Unbound

Init ==
    /\ cell = "none" /\ pc = "idle"
    /\ date = PyNone /\ badOut = <<>> /\ printed = <<>>
    /\ person = PyNone /\ badRes = PyNone /\ goodRes = PyNone
    /\ calls = <<>> /\ badCalls = <<>> /\ customer = PyNone
    /\ mult = Unbound /\ price = Unbound
    /\ ranBad = FALSE /\ badDisc = PyNone /\ goodDisc = PyNone
    /\ badMult = Unbound /\ badPrice = Unbound

\* the decompose-conditional cell on date d: bad flow, then good flow
RunDateCell ==
    /\ pc = "idle"
    /\ \E d \in Dates :
         /\ cell' = "date" /\ pc' = "idle"
         /\ date' = d
         /\ badOut' = BadDateFlow(d, <<>>)
         /\ printed' = GoodDateFlow(d, BadDateFlow(d, <<>>))
         /\ person' = PyNone /\ badRes' = PyNone /\ goodRes' = PyNone
         /\ calls' = <<>> /\ badCalls' = <<>> /\ customer' = PyNone
         /\ ranBad' = FALSE /\ badDisc' = PyNone /\ goodDisc' = PyNone
         /\ badMult' = Unbound /\ badPrice' = Unbound
    /\ UNCHANGED <<mult, price>>

\* bad__get_loan_limit(p) and good__get_loan_limit(p) on the same person
RunLoanLimit ==
    /\ pc = "idle"
    /\ \E p \in Persons :
         /\ cell' = "limit" /\ pc' = "idle"
         /\ person' = p
         /\ badRes' = PyInt(bad__get_loan_limit(p))
         /\ goodRes' = PyInt(good__get_loan_limit(p))
         /\ date' = PyNone /\ badOut' = <<>> /\ printed' = <<>>
         /\ calls' = <<>> /\ badCalls' = <<>> /\ customer' = PyNone
         /\ ranBad' = FALSE /\ badDisc' = PyNone /\ goodDisc' = PyNone
         /\ badMult' = Unbound /\ badPrice' = Unbound
    /\ UNCHANGED <<mult, price>>

\* bad__get_bill(c) and good__get_bill(c) on the same customer
RunGetBill ==
    /\ pc = "idle"
    /\ \E c \in Customers :
         /\ cell' = "bill" /\ pc' = "idle"
         /\ customer' = c
         /\ badRes' = bad__get_bill(c)
         /\ goodRes' = good__get_bill(c)
         /\ date' = PyNone /\ badOut' = <<>> /\ printed' = <<>>
         /\ person' = PyNone /\ calls' = <<>> /\ badCalls' = <<>>
         /\ ranBad' = FALSE /\ badDisc' = PyNone /\ goodDisc' = PyNone
         /\ badMult' = Unbound /\ badPrice' = Unbound
    /\ UNCHANGED <<mult, price>>

\* bad__loan_repayment_due(p) is called, good__loan_repayment_due(p) after it
StartLoanRepaymentDue ==
    /\ pc = "idle"
    /\ \E p \in DuePersons :
         /\ cell' = "due" /\ pc' = "bad_is_dead"
         /\ person' = p
         /\ badRes' = Unbound /\ goodRes' = Unbound
         /\ date' = PyNone /\ badOut' = <<>> /\ printed' = <<>>
         /\ calls' = <<>> /\ badCalls' = <<>> /\ customer' = PyNone
         /\ ranBad' = FALSE /\ badDisc' = PyNone /\ goodDisc' = PyNone
         /\ badMult' = Unbound /\ badPrice' = Unbound
    /\ UNCHANGED <<mult, price>>

\* the price cell: bad flow, then good flow
StartPriceCell ==
    /\ pc = "idle"
    /\ cell' = "price" /\ pc' = "bad_if"
    /\ ranBad' = TRUE
    /\ Forget
    /\ UNCHANGED <<mult, price>>

\* the good price flow on its own, on whatever mult and price are bound to
StartGoodPriceFlow ==
    /\ pc = "idle"
    /\ cell' = "price" /\ pc' = "good_mult_default"
    /\ ranBad' = FALSE
    /\ Forget
    /\ UNCHANGED <<mult, price>>

Next ==
    \/ RunDateCell
    \/ RunLoanLimit
    \/ RunGetBill
    \/ StartLoanRepaymentDue
    \/ bad_is_dead
    \/ bad_is_divorced
    \/ bad_is_retired
    \/ bad_is_not_working
    \/ good_is_dead
    \/ good_is_divorced
    \/ good_is_retired
    \/ good_is_not_working
    \/ StartPriceCell
    \/ StartGoodPriceFlow
    \/ bad_if
    \/ bad_then_mult
    \/ bad_else_mult
    \/ bad_then_price
    \/ bad_else_price
    \/ good_mult_default
    \/ good_if
    \/ good_then_mult
    \/ good_price

Spec == Init /\ [][Next]_vars

(***************************************************************************)
(* Properties                                                              *)
(***************************************************************************)
Done(c) == cell = c /\ pc = "idle"

\* C1: for every person, bad__get_loan_limit(person) and
\* good__get_loan_limit(person) return the same value.
C1_LoanLimitEquivalent ==
    Done("limit") => badRes = goodRes

C1_Witness ==
    Done("limit") /\ badRes = PyInt(100) /\ goodRes = PyInt(100)

\* C2: for all 16 combinations of is_dead, is_divorced, is_retired and
\* is_not_working, bad__loan_repayment_due and good__loan_repayment_due
\* produce the same outcome; when all four are false both return None.
C2_RepaymentDueEquivalent ==
    Done("due") =>
        /\ badRes = goodRes
        /\ (\A i \in 1..4 : ~person[Predicates[i]]) =>
               (badRes = PyNone /\ goodRes = PyNone)

C2_Witness ==
    /\ Done("due")
    /\ \A i \in 1..4 : ~person[Predicates[i]]
    /\ badRes = PyNone /\ goodRes = PyNone

\* C3: good__get_bill(NullCustomer()) returns 0, the value bad__get_bill(None)
\* returns; for every Customer or NullCustomer bad__get_bill and good__get_bill
\* return the same bill, 123 for a Customer.
C3_NullObjectStandsIn ==
    Done("bill") =>
        /\ customer = PyNone => badRes = PyInt(0)
        /\ customer = NullCustomer => goodRes = PyInt(0)
        /\ customer # PyNone => badRes = goodRes
        /\ customer = Customer => goodRes = PyInt(123)

C3_Witness ==
    Done("bill") /\ customer = NullCustomer /\ goodRes = PyInt(0) /\ badRes = PyInt(0)

\* C4: when the bad price flow and the good price flow see the same outcome of
\* is_discounted() they finish with the same mult and price: 0.8 and 10*0.8
\* when discounted, 1.0 and 10*1.0 otherwise (floats in tenths).
C4_PriceFlowsEquivalent ==
    (Done("price") /\ ranBad /\ badDisc = goodDisc) =>
        /\ badMult = mult
        /\ badPrice = price
        /\ goodDisc = PyBool(TRUE) => (mult = PyFloat(8) /\ price = PyFloat(10 * 8))
        /\ goodDisc = PyBool(FALSE) => (mult = PyFloat(10) /\ price = PyFloat(10 * 10))

C4_Witness ==
    /\ Done("price") /\ ranBad
    /\ badDisc = PyBool(TRUE) /\ goodDisc = PyBool(TRUE)
    /\ badMult = PyFloat(8) /\ mult = PyFloat(8) /\ price = PyFloat(80)

\* C5: check_if_date_valid(date) is true exactly when (date.month == 12) and
\* (date.year >= 2023), so the good flow prints 'date is valid' for exactly the
\* dates the bad flow prints it for; for 2024-12-15 both print it.
C5_DecomposedConditionSame ==
    Done("date") =>
        /\ check_if_date_valid(date) <=> ((date.month = 12) /\ (date.year >= 2023))
        /\ printed = badOut \o badOut
        /\ Len(badOut) = (IF (date.month = 12) /\ (date.year >= 2023) THEN 1 ELSE 0)
        /\ date = [year |-> 2024, month |-> 12, day |-> 15] =>
               printed = <<"date is valid", "date is valid">>

C5_Witness ==
    /\ Done("date")
    /\ date = [year |-> 2024, month |-> 12, day |-> 15]
    /\ printed = <<"date is valid", "date is valid">>

\* C6: what a price flow computes does not depend on the mult and price an
\* earlier flow left behind: the good flow ends with the mult and price its own
\* is_discounted() outcome decides, whether or not the bad flow ran before it
\* and whatever the bad flow left; likewise for the bad flow.
C6_NoDependenceOnEarlierFlow ==
    Done("price") =>
        /\ mult = (IF goodDisc = PyBool(TRUE) THEN PyFloat(8) ELSE PyFloat(10))
        /\ price = (IF goodDisc = PyBool(TRUE) THEN PyFloat(80) ELSE PyFloat(100))
        /\ ranBad =>
             /\ badMult = (IF badDisc = PyBool(TRUE) THEN PyFloat(8) ELSE PyFloat(10))
             /\ badPrice = (IF badDisc = PyBool(TRUE) THEN PyFloat(80) ELSE PyFloat(100))

C6_Witness ==
    /\ Done("price") /\ ranBad
    /\ badDisc = PyBool(TRUE) /\ goodDisc = PyBool(FALSE)
    /\ badMult = PyFloat(8) /\ badPrice = PyFloat(80)
    /\ mult = PyFloat(10) /\ price = PyFloat(100)

\* C7: for every person good__loan_repayment_due calls no more predicates than
\* bad__loan_repayment_due, and for at least one person strictly fewer.
C7_NestedExecutesMoreChecks ==
    Done("due") =>
        /\ Len(calls) <= Len(badCalls)
        /\ \E p \in DuePersons : GoodCallCount(p) < BadCallCount(p)

\* the call counts are those of the traces of the two functions
CallCountLemma ==
    Done("due") =>
        /\ Len(badCalls) = BadCallCount(person)
        /\ Len(calls) = GoodCallCount(person)

C9_EligibilityCondition ==
    Done("limit") =>
        LET eligible == person.age < 70 /\ person.income > 1000 /\ person.gender # "m"
        IN  /\ is_eligible_for_loan(person) <=> eligible
            /\ goodRes = (IF eligible THEN PyInt(100) ELSE PyInt(0))
            /\ goodRes \in {PyInt(0), PyInt(100)}
            /\ (person.age = 70 \/ person.income = 1000) => goodRes = PyInt(0)

C9_Witness ==
    /\ Done("limit")
    /\ person.age = 69 /\ person.income = 1000 /\ person.gender = "f"
    /\ goodRes = PyInt(0)

\* C10: for a missing customer (None) bad__get_bill returns 0 and
\* good__get_bill ends in an AttributeError; they agree when a NullCustomer is
\* passed instead.
C10_NoneCustomerRaises ==
    Done("bill") =>
        /\ customer = PyNone =>
             /\ badRes = PyInt(0)
             /\ goodRes = AttributeError
             /\ badRes # goodRes
        /\ customer = NullCustomer => (badRes = goodRes /\ goodRes.type = "int")

C10_Witness ==
    Done("bill") /\ customer = PyNone /\ badRes = PyInt(0) /\ goodRes = AttributeError

====
